---- MODULE Spec2Model ----
(***************************************************************************)
(* Model of compliance_email_system.py: main() validates the invocation,   *)
(* ComplianceEmailSystem.process_tasks loads the compliance matrix,        *)
(* filters it by schedule, groups the filtered rows by owner e-mail and    *)
(* renders and sends one digest per owner.                                 *)
(*                                                                         *)
(* Text cells and command-line words are sequences of one-character        *)
(* strings so that str.lower() and str.contains() are computed, not        *)
(* assumed.  Dates are records [year, month, day] as in datetime.date.     *)
(***************************************************************************)
EXTENDS Integers, Sequences, FiniteSets, TLC

(***************************************************************************)
(* Bounds of the model.                                                    *)
(***************************************************************************)
\* largest number of rows of a compliance matrix drawn by the loader
MaxTasks == 4

(***************************************************************************)
(* Text: str.lower(), str.contains(), ==, and the ordering of strings.     *)
(***************************************************************************)
UpperAlpha ==
    << "A","B","C","D","E","F","G","H","I","J","K","L","M",
       "N","O","P","Q","R","S","T","U","V","W","X","Y","Z" >>

LowerAlpha ==
    << "a","b","c","d","e","f","g","h","i","j","k","l","m",
       "n","o","p","q","r","s","t","u","v","w","x","y","z" >>

\* a missing cell (pandas NaN); it is not text
NaN == << "<NaN>" >>

isna(v) == v = NaN

LowerChar(c) ==
    IF \E i \in 1..26 : UpperAlpha[i] = c
    THEN LowerAlpha[CHOOSE i \in 1..26 : UpperAlpha[i] = c]
    ELSE c

\* str.lower() of a Python string
lower(s) == [i \in 1..Len(s) |-> LowerChar(s[i])]

\* Series.str.lower() applied to one cell: a missing cell stays missing
str_lower(v) == IF isna(v) THEN NaN ELSE lower(v)

\* Series.str.contains(pat, na=False) applied to one cell (pat has no regex
\* metacharacter, so the match is a substring search)
str_contains(v, pat) ==
    IF isna(v) THEN FALSE
    ELSE \E i \in 0..(Len(v) - Len(pat)) : SubSeq(v, i + 1, i + Len(pat)) = pat

\* Series == 'text' applied to one cell: a missing cell equals nothing
cell_eq(v, text) == IF isna(v) THEN FALSE ELSE v = text

\* code point of the characters that occur in group keys
CharCode(c) ==
    CASE c = " " -> 32
      [] c = "." -> 46
      [] c = "@" -> 64
      [] \E i \in 1..26 : UpperAlpha[i] = c ->
            64 + (CHOOSE i \in 1..26 : UpperAlpha[i] = c)
      [] \E i \in 1..26 : LowerAlpha[i] = c ->
            96 + (CHOOSE i \in 1..26 : LowerAlpha[i] = c)
      [] OTHER -> 127

\* s < t for Python strings (lexicographic by code point)
RECURSIVE str_lt(_, _)
str_lt(s, t) ==
    IF t = << >> THEN FALSE
    ELSE IF s = << >> THEN TRUE
    ELSE IF CharCode(Head(s)) # CharCode(Head(t))
         THEN CharCode(Head(s)) < CharCode(Head(t))
         ELSE str_lt(Tail(s), Tail(t))

(***************************************************************************)
(* The words of the program.                                               *)
(***************************************************************************)
S_daily     == << "d","a","i","l","y" >>
S_monthly   == << "m","o","n","t","h","l","y" >>
S_quarterly == << "q","u","a","r","t","e","r","l","y" >>
S_reminder  == << "r","e","m","i","n","d","e","r" >>
S_pending   == << "p","e","n","d","i","n","g" >>

valid_schedules == << S_daily, S_monthly, S_quarterly, S_reminder >>

required_columns ==
    << "Task", "Task Description", "Email", "Attachment Link",
       "Status", "Start Date", "End Date", "Frequency" >>

Range(f) == { f[i] : i \in DOMAIN f }

(***************************************************************************)
(* datetime.date: proleptic Gregorian ordinal, weekday, comparison.        *)
(***************************************************************************)
MkDate(y, m, d) == [year |-> y, month |-> m, day |-> d]

IsLeap(y) == (y % 4 = 0) /\ ((y % 100 # 0) \/ (y % 400 = 0))

DaysInMonth(y, m) ==
    IF m = 2 THEN (IF IsLeap(y) THEN 29 ELSE 28)
    ELSE IF m \in {4, 6, 9, 11} THEN 30 ELSE 31

RECURSIVE DaysBeforeMonth(_, _)
DaysBeforeMonth(y, m) ==
    IF m = 1 THEN 0 ELSE DaysBeforeMonth(y, m - 1) + DaysInMonth(y, m - 1)

DaysBeforeYear(y) ==
    (y - 1) * 365 + ((y - 1) \div 4) - ((y - 1) \div 100) + ((y - 1) \div 400)

\* date.toordinal(): 0001-01-01 is day 1
toordinal(d) == DaysBeforeYear(d.year) + DaysBeforeMonth(d.year, d.month) + d.day

\* date.weekday(): Monday is 0, Sunday is 6
weekday(d) == (toordinal(d) + 6) % 7

\* a > b in place of a >= b
date_gt(a, b) ==
    \/ a.year > b.year
    \/ a.year = b.year /\ a.month > b.month
    \/ a.year = b.year /\ a.month = b.month /\ a.day > b.day

\* a >= b for dates: datetime.date compares (year, month, day) in order
date_ge(a, b) ==
    \/ a.year > b.year
    \/ a.year = b.year /\ a.month > b.month
    \/ a.year = b.year /\ a.month = b.month /\ a.day >= b.day

\* (a - b).days
days_between(a, b) == toordinal(a) - toordinal(b)

\* Series.dt.date applied to one timestamp: the time of day is dropped
dt_date(ts) == MkDate(ts.year, ts.month, ts.day)

(***************************************************************************)
(* Inputs: the clock, the command line, the environment, the spreadsheet.  *)
(***************************************************************************)
\* dates on which the program is run: gate days of every mode and their
\* neighbours (2025-03-31 and 2025-06-30 are Mondays, 2025-12-31 and
\* 2025-10-01 are Wednesdays)
TodaySet ==
    { MkDate(2025, 1, 31), MkDate(2025, 3, 30), MkDate(2025, 3, 31),
      MkDate(2025, 4, 1),  MkDate(2025, 6, 30), MkDate(2025, 9, 30),
      MkDate(2025, 10, 1), MkDate(2025, 12, 31), MkDate(2026, 1, 1) }

next_day(d) ==
    IF d.day < DaysInMonth(d.year, d.month) THEN MkDate(d.year, d.month, d.day + 1)
    ELSE IF d.month < 12 THEN MkDate(d.year, d.month + 1, 1)
    ELSE MkDate(d.year + 1, 1, 1)

prev_day(d) ==
    IF d.day > 1 THEN MkDate(d.year, d.month, d.day - 1)
    ELSE IF d.month > 1 THEN MkDate(d.year, d.month - 1, DaysInMonth(d.year, d.month - 1))
    ELSE MkDate(d.year - 1, 12, 31)

RECURSIVE add_days(_, _)
\* d + timedelta(days=k)
add_days(d, k) ==
    IF k = 0 THEN d
    ELSE IF k > 0 THEN add_days(next_day(d), k - 1)
    ELSE add_days(prev_day(d), k + 1)

\* the timestamp cell `hour` o'clock, k days after date d
Stamp(d, k, hour) ==
    LET e == add_days(d, k)
    IN  [year |-> e.year, month |-> e.month, day |-> e.day, hour |-> hour]

\* a date cell that pd.to_datetime cannot parse
BadDateCell == [text |-> "n/a"]

S_script == << "c","e","s" >>

\* sys.argv of the invocations considered
ArgvSet ==
    { << S_script >>,
      << S_script, S_daily >>,
      << S_script, << "D","a","i","l","y" >> >>,
      << S_script, S_monthly >>,
      << S_script, << "Q","U","A","R","T","E","R","L","Y" >> >>,
      << S_script, S_reminder >>,
      << S_script, << "w","e","e","k","l","y" >> >>,
      << S_script, S_daily, S_monthly >> }

\* os.getenv() of a variable that may be unset or empty
NoneVal == "<None>"

UsernameSet == { NoneVal, "user" }

PasswordSet == { NoneVal, "", "secret" }

E_a      == << "a","@","x" >>
E_aUpper == << "A","@","x" >>
E_aSpace == << "a","@","x"," " >>
E_b      == << "b","@","x" >>

MkRow(task, email, status, frequency, start, end) ==
    [c \in Range(required_columns) |->
        CASE c = "Task"             -> task
          [] c = "Task Description" -> "description"
          [] c = "Email"            -> email
          [] c = "Attachment Link"  -> "https://files"
          [] c = "Status"           -> status
          [] c = "Start Date"       -> start
          [] c = "End Date"         -> end
          [] c = "Frequency"        -> frequency]

\* the rows a compliance matrix is made of, relative to the run date d
Pool(d) ==
    << MkRow("T1", E_a, S_pending, << "M","o","n","t","h","l","y" >>,
             Stamp(d, -5, 0), Stamp(d, 0, 17)),
       MkRow("T2", E_b, << "P","e","n","d","i","n","g" >>, S_quarterly,
             Stamp(d, -5, 0), Stamp(d, -1, 0)),
       MkRow("T3", E_aUpper, << "P","E","N","D","I","N","G" >>,
             << "B","i","-","M","O","N","T","H","L","Y" >>,
             Stamp(d, 1, 0), Stamp(d, 4, 0)),
       MkRow("T4", E_aSpace, S_pending,
             << "Q","u","a","r","t","e","r","l","y"," ","(","Q","4",")" >>,
             Stamp(d, -5, 0), Stamp(d, 3, 0)),
       MkRow("T5", E_b, << "C","o","m","p","l","e","t","e","d" >>, S_monthly,
             Stamp(d, -5, 0), Stamp(d, 5, 0)),
       MkRow("T6", E_a, S_pending, NaN,
             Stamp(d, -5, 0), Stamp(d, 0, 0)),
       MkRow("T7", NaN, S_pending,
             << "m","o","n","t","h","l","y","/","q","u","a","r","t","e","r","l","y" >>,
             Stamp(d, -5, 0), Stamp(d, 4, 0)),
       MkRow("T8", E_b, NaN, << "Q","U","A","R","T","E","R","L","Y" >>,
             Stamp(d, -5, 0), Stamp(d, 4, 0)),
       MkRow("T9", E_aUpper, S_pending, << "A","n","n","u","a","l" >>,
             Stamp(d, -5, 0), Stamp(d, -1, 23)) >>

RECURSIVE PickRows(_, _, _)
\* the rows of `pool` whose position is in S, in the pool's order, from i on
PickRows(pool, S, i) ==
    IF i > Len(pool) THEN << >>
    ELSE IF i \in S THEN << pool[i] >> \o PickRows(pool, S, i + 1)
    ELSE PickRows(pool, S, i + 1)

\* pandas reads the column as text: it is empty or some cell of it holds text
\* (a column of blank cells only is read as numbers, and has no .str)
TextColumn(rows, col) ==
    rows = << >> \/ \E i \in 1..Len(rows) : ~isna(rows[i][col])

\* the compliance matrices with every required column, at most MaxTasks rows
\* and Status and Frequency columns of text
Tables(d) ==
    LET pool == Pool(d)
        all  == { PickRows(pool, S, 1) :
                    S \in { T \in SUBSET (1..Len(pool)) : Cardinality(T) <= MaxTasks } }
    IN  { t \in all : TextColumn(t, "Status") /\ TextColumn(t, "Frequency") }

GoodSheets(d) ==
    { [readable |-> TRUE, columns |-> Range(required_columns), rows |-> t] :
        t \in Tables(d) }

\* rows of a sheet that lacks column `missing`
DropColumn(rows, missing) ==
    [i \in 1..Len(rows) |->
        [c \in Range(required_columns) \ {missing} |-> rows[i][c]]]

\* sheets the loader rejects: one required column absent, a date cell that
\* does not parse, a file that is not a workbook
BadSheets(d) ==
    LET t == PickRows(Pool(d), {1, 3, 6}, 1)
    IN  { [readable |-> TRUE,
           columns  |-> Range(required_columns) \ {c},
           rows     |-> DropColumn(t, c)] : c \in Range(required_columns) }
        \cup
        { [readable |-> TRUE, columns |-> Range(required_columns),
           rows |-> << [t[1] EXCEPT !["End Date"] = BadDateCell], t[2] >>],
          [readable |-> FALSE, columns |-> {}, rows |-> << >>] }

Sheets(d) == GoodSheets(d) \cup BadSheets(d)

(***************************************************************************)
(* ComplianceEmailSystem.load_excel_data                                   *)
(***************************************************************************)
\* self.data before the first load
NoData == [columns |-> {}, rows |-> << >>, loaded |-> FALSE]

\* a validation that forgets one of the eight columns
missing_columns_short(sheet) ==
    SelectSeq(required_columns,
              LAMBDA col : col \notin sheet.columns /\ col # "Attachment Link")

missing_columns(sheet) ==
    SelectSeq(required_columns, LAMBDA col : col \notin sheet.columns)

\* pd.to_datetime raises on a cell that is no date
parses(rows, col) == \A i \in 1..Len(rows) : "text" \notin DOMAIN rows[i][col]

\* data[col] = pd.to_datetime(data[col]).dt.date
convert_dates(rows, col) ==
    [i \in 1..Len(rows) |-> [rows[i] EXCEPT ![col] = dt_date(rows[i][col])]]

\* the value returned and self.data after load_excel_data() read `sheet`
load_excel_data(sheet) ==
    IF ~sheet.readable
    THEN [ok |-> FALSE, data |-> NoData]
    ELSE LET raw == [columns |-> sheet.columns, rows |-> sheet.rows, loaded |-> TRUE]
         IN  IF missing_columns(sheet) # << >>
             THEN [ok |-> FALSE, data |-> raw]
             ELSE IF ~parses(raw.rows, "Start Date")
             THEN [ok |-> FALSE, data |-> raw]
             ELSE LET s1 == [raw EXCEPT !.rows = convert_dates(raw.rows, "Start Date")]
                  IN  IF ~parses(s1.rows, "End Date")
                      THEN [ok |-> FALSE, data |-> s1]
                      ELSE [ok |-> TRUE,
                            data |-> [s1 EXCEPT !.rows = convert_dates(s1.rows, "End Date")]]

(***************************************************************************)
(* ComplianceEmailSystem.filter_tasks_by_schedule                          *)
(***************************************************************************)
\* the weekday the reminder branch compares with
REMINDER_WEEKDAY == 2

\* the monthly branch goes on to select rows
monthly_gate(d) == ~(d.day # 1)

quarter_ends(d) ==
    << MkDate(d.year, 3, 31), MkDate(d.year, 6, 30),
       MkDate(d.year, 9, 30), MkDate(d.year, 12, 31) >>

\* a quarter-end test that looks at the day of the month only
quarterly_gate_day_only(d) == d.day \in {30, 31}

\* the quarterly branch goes on to select rows
quarterly_gate(d) == ~(d \notin Range(quarter_ends(d)))

\* the reminder branch goes on to select rows
reminder_gate(d) == ~(weekday(d) # REMINDER_WEEKDAY)

\* data['Status'].str.lower() == 'pending', for one row
is_pending(row) == cell_eq(str_lower(row["Status"]), S_pending)

\* a match of the whole cell in place of a substring search
frequency_equals(row, word) == cell_eq(str_lower(row["Frequency"]), word)

\* data['Frequency'].str.lower().str.contains(word, na=False), for one row
frequency_contains(row, word) == str_contains(str_lower(row["Frequency"]), word)

\* data['End Date'] >= today, for one row
not_overdue(row, d) == date_ge(row["End Date"], d)

\* the index of the rows returned (pd.DataFrame() has none)
filter_tasks_by_schedule(rows, schedule, d) ==
    CASE schedule = S_monthly ->
            IF ~monthly_gate(d) THEN {}
            ELSE { i \in 1..Len(rows) :
                     frequency_contains(rows[i], S_monthly) /\ is_pending(rows[i]) }
      [] schedule = S_quarterly ->
            IF ~quarterly_gate(d) THEN {}
            ELSE { i \in 1..Len(rows) :
                     frequency_contains(rows[i], S_quarterly) /\ is_pending(rows[i]) }
      [] schedule = S_daily ->
            { i \in 1..Len(rows) : is_pending(rows[i]) /\ not_overdue(rows[i], d) }
      [] schedule = S_reminder ->
            IF ~reminder_gate(d) THEN {}
            ELSE { i \in 1..Len(rows) : is_pending(rows[i]) /\ not_overdue(rows[i], d) }
      [] OTHER -> {}

(***************************************************************************)
(* filtered_tasks.groupby('Email')                                         *)
(***************************************************************************)
\* a key that is trimmed and lower-cased
group_key_folded(email) == lower(SelectSeq(email, LAMBDA c : c # " "))

\* the key a row is grouped under
group_key(email) == email

RECURSIVE sorted(_)
\* the strings of S in ascending order
sorted(S) ==
    IF S = {} THEN << >>
    ELSE LET m == CHOOSE x \in S : \A y \in S \ {x} : str_lt(x, y)
         IN  << m >> \o sorted(S \ {m})

\* the groups in key order; rows with a missing key are dropped
groupby_email(rows, index) ==
    LET keys == sorted({ group_key(rows[i]["Email"]) :
                           i \in { j \in index : ~isna(rows[j]["Email"]) } })
    IN  [k \in 1..Len(keys) |->
            [email |-> keys[k],
             tasks |-> { i \in index : /\ ~isna(rows[i]["Email"])
                                        /\ group_key(rows[i]["Email"]) = keys[k] }]]

(***************************************************************************)
(* ComplianceEmailSystem.create_email_content                              *)
(***************************************************************************)
URGENT_DAYS == 3

RECURSIVE ascending(_)
\* the row numbers of S in table order
ascending(S) ==
    IF S = {} THEN << >>
    ELSE LET m == CHOOSE x \in S : \A y \in S : x <= y
         IN  << m >> \o ascending(S \ {m})

\* a marker for fewer than three days only
urgent_class_strict(days_remaining) ==
    IF days_remaining < URGENT_DAYS THEN "urgent" ELSE ""

\* class attribute of the deadline cell
urgent_class(days_remaining) == IF days_remaining <= URGENT_DAYS THEN "urgent" ELSE ""

\* the digest: the heading's task count and one table row per task
create_email_content(rows, tasks, d) ==
    LET order == ascending(tasks)
    IN  [task_count |-> Cardinality(tasks),
         lines |-> [k \in 1..Len(order) |->
                      LET task == rows[order[k]]
                          days_remaining == days_between(task["End Date"], d)
                      IN  [task |-> task["Task"],
                           days_remaining |-> days_remaining,
                           class |-> urgent_class(days_remaining)]]]

(***************************************************************************)
(* ComplianceEmailSystem.send_email                                        *)
(***************************************************************************)
\* a value Python treats as true
truthy(v) == v \notin { NoneVal, "" }

\* any() in place of all()
credentials_any(username, password) == truthy(username) \/ truthy(password)

\* all([self.smtp_username, self.smtp_password])
credentials_complete(username, password) == truthy(username) /\ truthy(password)

\* the value returned, and whether the SMTP server was contacted, when the
\* server would accept the message (delivered) or raise
send_email(username, password, delivered) ==
    IF ~credentials_complete(username, password)
    THEN [ok |-> FALSE, smtp |-> FALSE]
    ELSE [ok |-> delivered, smtp |-> TRUE]

(***************************************************************************)
(* The run: main() and process_tasks().                                    *)
(***************************************************************************)
VARIABLES
    argv,            \* sys.argv
    today,           \* datetime.now().date()
    excel_exists,    \* os.path.exists(excel_file)
    pc,              \* position of the run
    schedule_type,   \* main's schedule_type, once computed
    smtp_username,   \* self.smtp_username
    smtp_password,   \* self.smtp_password
    data,            \* self.data
    filtered_tasks,  \* index of process_tasks' filtered_tasks
    grouped_tasks,   \* process_tasks' grouped_tasks
    next_group,      \* position of the for loop in grouped_tasks
    emails_sent,
    emails_failed,
    result,          \* the dict process_tasks returned
    stdout,          \* what main printed
    exit_code,       \* status of the process once it has ended
    uncaught,        \* the exception that ended the process, if one did
    load_calls,      \* number of calls of load_excel_data
    filter_calls,    \* number of calls of filter_tasks_by_schedule
    send_log         \* one entry per call of send_email, in order

vars ==
    << argv, today, excel_exists, pc, schedule_type, smtp_username, smtp_password,
       data, filtered_tasks, grouped_tasks, next_group, emails_sent, emails_failed,
       result, stdout, exit_code, uncaught, load_calls, filter_calls, send_log >>

NoResult == [unset |-> TRUE]

\* exit_code while the process runs
Running == -1

Init ==
    /\ argv \in ArgvSet
    /\ today \in TodaySet
    /\ excel_exists \in BOOLEAN
    /\ pc = "main"
    /\ schedule_type = << >>
    /\ smtp_username = NoneVal
    /\ smtp_password = NoneVal
    /\ data = NoData
    /\ filtered_tasks = {}
    /\ grouped_tasks = << >>
    /\ next_group = 1
    /\ emails_sent = 0
    /\ emails_failed = 0
    /\ result = NoResult
    /\ stdout = << >>
    /\ exit_code = Running
    /\ uncaught = "none"
    /\ load_calls = 0
    /\ filter_calls = 0
    /\ send_log = << >>

\* sys.exit(code)
sys_exit(code) ==
    /\ pc' = "exited"
    /\ exit_code' = code

\* main: wrong number of arguments
main_usage ==
    /\ pc = "main"
    /\ Len(argv) # 2
    /\ stdout' = stdout \o << << "usage" >> >>
    /\ sys_exit(1)
    /\ UNCHANGED << argv, today, excel_exists, schedule_type, smtp_username,
                    smtp_password, data, filtered_tasks, grouped_tasks, next_group,
                    emails_sent, emails_failed, result, uncaught, load_calls,
                    filter_calls, send_log >>

\* a check that lets every word through
is_valid_schedule_any(schedule) == TRUE

\* schedule_type in valid_schedules
is_valid_schedule(schedule) == schedule \in Range(valid_schedules)

\* main: the schedule type is lower-cased and checked
main_schedule ==
    /\ pc = "main"
    /\ ~(Len(argv) # 2)
    /\ schedule_type' = lower(argv[2])
    /\ IF ~is_valid_schedule(schedule_type')
       THEN /\ stdout' = stdout \o << << "error: schedule type" >> >>
            /\ sys_exit(1)
       ELSE /\ pc' = "check_file"
            /\ UNCHANGED << stdout, exit_code >>
    /\ UNCHANGED << argv, today, excel_exists, smtp_username, smtp_password, data,
                    filtered_tasks, grouped_tasks, next_group, emails_sent,
                    emails_failed, result, uncaught, load_calls, filter_calls,
                    send_log >>

\* main: the spreadsheet does not exist
main_file_missing ==
    /\ pc = "check_file"
    /\ ~excel_exists
    /\ sys_exit(1)
    /\ UNCHANGED << argv, today, excel_exists, schedule_type, smtp_username,
                    smtp_password, data, filtered_tasks, grouped_tasks, next_group,
                    emails_sent, emails_failed, result, stdout, uncaught, load_calls,
                    filter_calls, send_log >>

\* main: ComplianceEmailSystem(excel_file) reads the SMTP settings
system_init ==
    /\ pc = "check_file"
    /\ excel_exists
    /\ \E u \in UsernameSet, p \in PasswordSet :
          /\ smtp_username' = u
          /\ smtp_password' = p
    /\ data' = NoData
    /\ pc' = "load"
    /\ UNCHANGED << argv, today, excel_exists, schedule_type, filtered_tasks,
                    grouped_tasks, next_group, emails_sent, emails_failed, result,
                    stdout, exit_code, uncaught, load_calls, filter_calls, send_log >>

\* process_tasks: load_excel_data() and the return on its failure
process_load ==
    /\ pc = "load"
    /\ \E sheet \in Sheets(today) :
          LET r == load_excel_data(sheet)
          IN  /\ data' = r.data
              /\ IF ~r.ok
                 THEN /\ result' = [success |-> FALSE,
                                    error |-> "Failed to load Excel data"]
                      /\ pc' = "report"
                 ELSE /\ pc' = "filter"
                      /\ UNCHANGED result
    /\ load_calls' = load_calls + 1
    /\ UNCHANGED << argv, today, excel_exists, schedule_type, smtp_username,
                    smtp_password, filtered_tasks, grouped_tasks, next_group,
                    emails_sent, emails_failed, stdout, exit_code, uncaught,
                    filter_calls, send_log >>

\* a filter that keeps its selection in self.data
table_filtered_in_place(rows, schedule, d) ==
    PickRows(rows, filter_tasks_by_schedule(rows, schedule, d), 1)

\* self.data's rows after filter_tasks_by_schedule: the selection
\* self.data[mask] is a new frame and nothing is assigned to self.data
table_after_filter(rows, schedule, d) == rows

\* process_tasks: filter_tasks_by_schedule(), the return on an empty result,
\* groupby('Email') and the counters' initialisation
process_filter ==
    /\ pc = "filter"
    /\ filter_calls' = filter_calls + 1
    /\ filtered_tasks' = filter_tasks_by_schedule(data.rows, schedule_type, today)
    /\ data' = [data EXCEPT !.rows = table_after_filter(data.rows, schedule_type, today)]
    /\ IF filtered_tasks' = {}
       THEN /\ result' = [success |-> TRUE, emails_sent |-> 0,
                          total_tasks |-> 0, unique_users |-> 0]
            /\ pc' = "report"
            /\ UNCHANGED << grouped_tasks, next_group, emails_sent, emails_failed >>
       ELSE /\ grouped_tasks' = groupby_email(data.rows, filtered_tasks')
            /\ next_group' = 1
            /\ emails_sent' = 0
            /\ emails_failed' = 0
            /\ pc' = "send"
            /\ UNCHANGED result
    /\ UNCHANGED << argv, today, excel_exists, schedule_type, smtp_username,
                    smtp_password, stdout, exit_code, uncaught, load_calls,
                    send_log >>

\* a loop that sends again to the group whose send failed
after_send_retry(i, n, ok) == IF ok THEN i + 1 ELSE i

\* a loop that a failed send ends
after_send_abort(i, n, ok) == IF ok THEN i + 1 ELSE n + 1

\* the position of the for loop after the send to group i of n returned ok:
\* the loop goes on to the next group whatever send_email returned
after_send(i, n, ok) == i + 1

\* emails_sent and emails_failed after send_email returned ok
count_send(sent, failed, ok) ==
    IF ok THEN [sent |-> sent + 1, failed |-> failed]
    ELSE [sent |-> sent, failed |-> failed + 1]

\* process_tasks: one iteration of the loop over the groups
process_send ==
    /\ pc = "send"
    /\ next_group <= Len(grouped_tasks)
    /\ LET group == grouped_tasks[next_group]
           html_content == create_email_content(data.rows, group.tasks, today)
       IN  \E delivered \in BOOLEAN :
              LET r == send_email(smtp_username, smtp_password, delivered)
              IN  /\ send_log' = Append(send_log,
                                    [to |-> group.email, tasks |-> group.tasks,
                                     html |-> html_content, smtp |-> r.smtp,
                                     ok |-> r.ok])
                  /\ emails_sent' = count_send(emails_sent, emails_failed, r.ok).sent
                  /\ emails_failed' = count_send(emails_sent, emails_failed, r.ok).failed
                  /\ next_group' = after_send(next_group, Len(grouped_tasks), r.ok)
    /\ UNCHANGED << argv, today, excel_exists, pc, schedule_type, smtp_username,
                    smtp_password, data, filtered_tasks, grouped_tasks, result,
                    stdout, exit_code, uncaught, load_calls, filter_calls >>

\* process_tasks: the result after the loop
process_finish ==
    /\ pc = "send"
    /\ ~(next_group <= Len(grouped_tasks))
    /\ result' = [success |-> TRUE,
                  emails_sent |-> emails_sent,
                  emails_failed |-> emails_failed,
                  total_tasks |-> Cardinality(filtered_tasks),
                  unique_users |-> Len(grouped_tasks)]
    /\ pc' = "report"
    /\ UNCHANGED << argv, today, excel_exists, schedule_type, smtp_username,
                    smtp_password, data, filtered_tasks, grouped_tasks, next_group,
                    emails_sent, emails_failed, stdout, exit_code, uncaught,
                    load_calls, filter_calls, send_log >>

\* the keys main prints of a successful result, in order
report_keys == << "emails_sent", "emails_failed", "total_tasks", "unique_users" >>

RECURSIVE print_counters(_, _)
\* the lines printed from key number k on, up to the first key the dict lacks
print_counters(r, k) ==
    IF k > Len(report_keys) \/ report_keys[k] \notin DOMAIN r THEN << >>
    ELSE << << report_keys[k], r[report_keys[k]] >> >> \o print_counters(r, k + 1)

\* main: the summary and the exit status
main_report ==
    /\ pc = "report"
    /\ IF result.success
       THEN LET printed == print_counters(result, 1)
            IN  /\ stdout' = stdout \o << << "success" >> >> \o printed
                /\ IF Len(printed) < Len(report_keys)
                   THEN /\ uncaught' = "KeyError"
                        /\ sys_exit(1)
                   ELSE /\ sys_exit(0)
                        /\ UNCHANGED uncaught
       ELSE /\ stdout' = stdout \o << << "failed", result.error >> >>
            /\ sys_exit(1)
            /\ UNCHANGED uncaught
    /\ UNCHANGED << argv, today, excel_exists, schedule_type, smtp_username,
                    smtp_password, data, filtered_tasks, grouped_tasks, next_group,
                    emails_sent, emails_failed, result, load_calls, filter_calls,
                    send_log >>

Next ==
    \/ main_usage
    \/ main_schedule
    \/ main_file_missing
    \/ system_init
    \/ process_load
    \/ process_filter
    \/ process_send
    \/ process_finish
    \/ main_report

Spec == Init /\ [][Next]_vars

(***************************************************************************)
(* Vocabulary of the properties, stated without the program's operators.   *)
(***************************************************************************)
UpperOf(c) ==
    IF \E i \in 1..26 : LowerAlpha[i] = c
    THEN UpperAlpha[CHOOSE i \in 1..26 : LowerAlpha[i] = c]
    ELSE c

\* cell v spells the lower-case `word`, each letter in either case
SpellsIgnoringCase(v, word) ==
    /\ v # NaN
    /\ Len(v) = Len(word)
    /\ \A i \in 1..Len(word) : v[i] \in { word[i], UpperOf(word[i]) }

\* cell v has the lower-case `word` in it, each letter in either case
HasWordIgnoringCase(v, word) ==
    /\ v # NaN
    /\ \E k \in 1..Len(v) :
          /\ k + Len(word) - 1 <= Len(v)
          /\ \A j \in 1..Len(word) : v[k + j - 1] \in { word[j], UpperOf(word[j]) }

Rows == data.rows

\* process_tasks has returned
ProcessReturned == result # NoResult

\* filter_tasks_by_schedule has returned
FilterReturned == filter_calls > 0

\* the distinct owner e-mails of the filtered rows, compared exactly
Owners == { Rows[i]["Email"] : i \in filtered_tasks } \ { NaN }

\* the entries of the send log that are addressed to e
SendsTo(e) == { i \in DOMAIN send_log : send_log[i].to = e }

FailedSends == { i \in DOMAIN send_log : ~send_log[i].ok }

(***************************************************************************)
(* C1: per-owner isolation.  Once process_tasks has returned on a          *)
(* non-empty filtered set, whatever the outcomes of the sends, every owner *)
(* group got a send attempt, success is true, emails_sent + emails_failed  *)
(* = unique_users and emails_failed is the number of sends that failed.    *)
(***************************************************************************)
C1_PerOwnerIsolation ==
    (ProcessReturned /\ filtered_tasks # {}) =>
        /\ result.success = TRUE
        /\ \A e \in Owners : SendsTo(e) # {}
        /\ result.emails_sent + result.emails_failed = result.unique_users
        /\ result.emails_failed = Cardinality(FailedSends)

\* three owners, the first send failed and the two after it were made and succeeded
C1_Witness ==
    /\ ProcessReturned
    /\ Cardinality(Owners) = 3
    /\ Len(send_log) = 3
    /\ ~send_log[1].ok /\ send_log[2].ok /\ send_log[3].ok
    /\ result.emails_sent = 2 /\ result.emails_failed = 1 /\ result.unique_users = 3

(***************************************************************************)
(* C2: when the load succeeded and the filter selected no task, no digest  *)
(* is rendered or sent and the process ends with exit code 0 after         *)
(* reporting the four counters (tasks, sent, failed, owners) as zero.      *)
(***************************************************************************)
C2_NothingToSendExitsZero ==
    (pc = "exited" /\ FilterReturned /\ filtered_tasks = {}) =>
        /\ send_log = << >>
        /\ exit_code = 0
        /\ \A k \in 1..Len(report_keys) : << report_keys[k], 0 >> \in Range(stdout)

(***************************************************************************)
(* C3: when the table lacks a required column, or the load fails for       *)
(* another reason, process_tasks returns success = false, the filter is    *)
(* never run, no send is attempted and main exits with a non-zero status.  *)
(***************************************************************************)
\* the sheet read was no workbook, lacked a required column or had a date
\* cell that is no date
LoadRejected ==
    /\ load_calls > 0
    /\ \/ ~data.loaded
       \/ \E c \in Range(required_columns) : c \notin data.columns
       \/ \E i \in 1..Len(Rows) : \E c \in { "Start Date", "End Date" } :
             c \in DOMAIN Rows[i] /\ "text" \in DOMAIN Rows[i][c]

C3_LoadFailureIsFatal ==
    LoadRejected =>
        /\ pc \in { "report", "exited" }
        /\ result.success = FALSE
        /\ filter_calls = 0
        /\ send_log = << >>
        /\ pc = "exited" => exit_code \notin { 0, Running }

\* the run ended with status 1 on a sheet without the Attachment Link column
C3_Witness ==
    /\ pc = "exited"
    /\ exit_code = 1
    /\ load_calls = 1
    /\ data.loaded
    /\ Range(required_columns) \ data.columns = { "Attachment Link" }
    /\ Len(Rows) > 0

(***************************************************************************)
(* C4: the gate short-circuits.  In mode monthly on a day other than the   *)
(* 1st, and in mode quarterly on a date other than Mar 31, Jun 30, Sep 30  *)
(* and Dec 31, the filter returns nothing whatever the table holds.        *)
(***************************************************************************)
GateClosed ==
    \/ schedule_type = S_monthly /\ today.day # 1
    \/ /\ schedule_type = S_quarterly
       /\ << today.month, today.day >> \notin
             { << 3, 31 >>, << 6, 30 >>, << 9, 30 >>, << 12, 31 >> }

C4_GateShortCircuits ==
    (FilterReturned /\ GateClosed) => filtered_tasks = {} /\ send_log = << >>

\* quarterly on 30 March, on a table with a pending quarterly task
C4_Witness ==
    /\ FilterReturned
    /\ schedule_type = S_quarterly
    /\ today = MkDate(2025, 3, 30)
    /\ \E i \in 1..Len(Rows) :
          /\ SpellsIgnoringCase(Rows[i]["Status"], S_pending)
          /\ HasWordIgnoringCase(Rows[i]["Frequency"], S_quarterly)
    /\ filtered_tasks = {}

(***************************************************************************)
(* C5: in mode daily, on any date, the filter returns exactly the tasks    *)
(* whose status is "pending" in any letter case and whose end date is not  *)
(* before today; the start date plays no role.                             *)
(***************************************************************************)
DaysLeft(i) == toordinal(Rows[i]["End Date"]) - toordinal(today)

C5_DailySelection ==
    (FilterReturned /\ schedule_type = S_daily) =>
        filtered_tasks =
            { i \in 1..Len(Rows) :
                SpellsIgnoringCase(Rows[i]["Status"], S_pending) /\ DaysLeft(i) >= 0 }

\* a pending task due today is in, one due yesterday is out, a task that is
\* not pending and due in five days is out, a task not yet started is in
C5_Witness ==
    /\ FilterReturned
    /\ schedule_type = S_daily
    /\ \E i \in filtered_tasks : DaysLeft(i) = 0
    /\ \E i \in 1..Len(Rows) :
          /\ i \notin filtered_tasks
          /\ SpellsIgnoringCase(Rows[i]["Status"], S_pending)
          /\ DaysLeft(i) = -1
    /\ \E i \in 1..Len(Rows) :
          /\ i \notin filtered_tasks
          /\ ~SpellsIgnoringCase(Rows[i]["Status"], S_pending)
          /\ DaysLeft(i) = 5
    /\ \E i \in filtered_tasks :
          toordinal(Rows[i]["Start Date"]) > toordinal(today)

(***************************************************************************)
(* C6: on a gate day (the 1st for monthly, a quarter end for quarterly)    *)
(* the filter returns exactly the tasks whose status is "pending" in any   *)
(* letter case and whose frequency has the mode's name in it in any letter *)
(* case; a task with a missing frequency is not returned.                  *)
(***************************************************************************)
GateOpen ==
    \/ schedule_type = S_monthly /\ today.day = 1
    \/ /\ schedule_type = S_quarterly
       /\ << today.month, today.day >> \in
             { << 3, 31 >>, << 6, 30 >>, << 9, 30 >>, << 12, 31 >> }

C6_GateDaySelection ==
    (FilterReturned /\ GateOpen) =>
        filtered_tasks =
            { i \in 1..Len(Rows) :
                /\ SpellsIgnoringCase(Rows[i]["Status"], S_pending)
                /\ HasWordIgnoringCase(Rows[i]["Frequency"], schedule_type) }

\* monthly on the 1st: "Bi-MONTHLY" of a "PENDING" task is in; a pending task
\* without frequency and a completed monthly task are out
C6_Witness ==
    /\ FilterReturned
    /\ schedule_type = S_monthly
    /\ today.day = 1
    /\ \E i \in filtered_tasks :
          /\ Rows[i]["Frequency"] # S_monthly
          /\ Rows[i]["Status"] # S_pending
    /\ \E i \in 1..Len(Rows) :
          /\ i \notin filtered_tasks
          /\ Rows[i]["Frequency"] = NaN
          /\ Rows[i]["Status"] = S_pending
    /\ \E i \in 1..Len(Rows) :
          /\ i \notin filtered_tasks
          /\ Rows[i]["Frequency"] = S_monthly
          /\ ~SpellsIgnoringCase(Rows[i]["Status"], S_pending)

(***************************************************************************)
(* C7: grouping by owner.  Once process_tasks has returned on a non-empty  *)
(* filtered set, there is exactly one digest (one render, one send) per    *)
(* distinct owner e-mail, e-mails being compared exactly; the digest holds *)
(* all and only that owner's filtered tasks; unique_users is the number of *)
(* distinct e-mails.                                                       *)
(***************************************************************************)
TasksOf(e) == { j \in filtered_tasks : Rows[j]["Email"] = e }

C7_OneDigestPerOwner ==
    (ProcessReturned /\ filtered_tasks # {}) =>
        /\ \A i \in DOMAIN send_log : send_log[i].to \in Owners
        /\ \A e \in Owners :
              /\ Cardinality(SendsTo(e)) = 1
              /\ \A i \in SendsTo(e) :
                    /\ send_log[i].tasks = TasksOf(e)
                    /\ send_log[i].html.task_count = Cardinality(TasksOf(e))
                    /\ { l.task : l \in Range(send_log[i].html.lines) } =
                          { Rows[j]["Task"] : j \in TasksOf(e) }
                    /\ Len(send_log[i].html.lines) = Cardinality(TasksOf(e))
        /\ result.unique_users = Cardinality(Owners)

\* four tasks of three owners whose e-mails differ in case or in a trailing
\* blank only: three digests, one of them with two tasks
C7_Witness ==
    /\ ProcessReturned
    /\ Cardinality(filtered_tasks) = 4
    /\ Owners = { E_a, E_aUpper, E_aSpace }
    /\ Len(send_log) = 3
    /\ \E i \in DOMAIN send_log : Cardinality(send_log[i].tasks) = 2

(***************************************************************************)
(* C8: mail user name or password absent.  The run is not aborted up       *)
(* front; for each owner the send is attempted and fails, every owner is   *)
(* counted in emails_failed and the run completes with success = true.     *)
(***************************************************************************)
CredentialsAbsent ==
    smtp_username \in { NoneVal, "" } \/ smtp_password \in { NoneVal, "" }

\* the claim as stated: the mail transport is tried for each owner
C8_TransportTriedWithoutCredentials ==
    (ProcessReturned /\ filtered_tasks # {} /\ CredentialsAbsent) =>
        /\ \A e \in Owners :
              \E i \in SendsTo(e) : send_log[i].smtp /\ ~send_log[i].ok
        /\ result.emails_failed = Cardinality(Owners)
        /\ result.success = TRUE

\* as amended: send_email is called for each owner and fails before the
\* mail transport is contacted
C8_SendFailsWithoutCredentials ==
    (ProcessReturned /\ filtered_tasks # {} /\ CredentialsAbsent) =>
        /\ \A e \in Owners :
              \E i \in SendsTo(e) : ~send_log[i].smtp /\ ~send_log[i].ok
        /\ \A i \in DOMAIN send_log : ~send_log[i].smtp
        /\ result.emails_failed = Cardinality(Owners)
        /\ result.emails_sent = 0
        /\ result.success = TRUE

\* a user name without password, two owners, both counted as failed
C8_Witness ==
    /\ ProcessReturned
    /\ smtp_username = "user"
    /\ smtp_password = NoneVal
    /\ Cardinality(Owners) = 2
    /\ Len(send_log) = 2
    /\ result.emails_failed = 2

(***************************************************************************)
(* C9: no retries.  Within a run no owner gets a second send attempt,      *)
(* neither after a failed send nor after a successful one.                 *)
(***************************************************************************)
C9_NoRetries ==
    /\ \A i, j \in DOMAIN send_log : send_log[i].to = send_log[j].to => i = j
    /\ FilterReturned => Len(send_log) <= Cardinality(Owners)

\* a run that ended after a failed send and a successful one
C9_Witness ==
    /\ pc = "exited"
    /\ Len(send_log) >= 2
    /\ ~send_log[1].ok
    /\ \E i \in DOMAIN send_log : send_log[i].ok

(***************************************************************************)
(* C10: invocation errors come before any processing.  If the schedule     *)
(* argument is missing or is none of daily, monthly, quarterly, reminder,  *)
(* or the input file does not exist, the process exits with a non-zero     *)
(* status and the loader, the filter and the mail transport never run.     *)
(***************************************************************************)
NothingProcessed ==
    /\ pc \in { "main", "check_file", "exited" }
    /\ load_calls = 0
    /\ filter_calls = 0
    /\ send_log = << >>
    /\ pc = "exited" => exit_code \notin { 0, Running }

\* the claim as stated: the argument is compared as it was typed
C10_InvocationErrorsExact ==
    ( \/ Len(argv) < 2
      \/ Len(argv) >= 2 /\ argv[2] \notin Range(valid_schedules)
      \/ ~excel_exists ) => NothingProcessed

\* as amended: the argument is none of the four words in any letter case
C10_InvocationErrors ==
    ( \/ Len(argv) < 2
      \/ /\ Len(argv) >= 2
         /\ \A w \in Range(valid_schedules) : ~SpellsIgnoringCase(argv[2], w)
      \/ ~excel_exists ) => NothingProcessed

\* "weekly" with the spreadsheet in place: exit status 1, nothing loaded
C10_Witness ==
    /\ pc = "exited"
    /\ exit_code = 1
    /\ Len(argv) = 2
    /\ argv[2] = << "w","e","e","k","l","y" >>
    /\ excel_exists
    /\ load_calls = 0

(***************************************************************************)
(* C11: filtering is pure and idempotent.  A second call of the filter on  *)
(* the same table, mode and date returns the set the first call returned,  *)
(* and once the table is loaded no step of the run (filter, grouping,      *)
(* render, send, report) changes it.                                       *)
(***************************************************************************)
SecondCallAgrees ==
    FilterReturned =>
        filter_tasks_by_schedule(Rows, schedule_type, today) = filtered_tasks

TableKept == (pc \in { "filter", "send", "report" }) => (data' = data)

C11_FilterIsPure == []SecondCallAgrees /\ [][TableKept]_vars

\* the run ended after the filter kept some rows of the table and dropped
\* others, and digests were rendered and sent
C11_Witness ==
    /\ pc = "exited"
    /\ FilterReturned
    /\ filtered_tasks # {}
    /\ Cardinality(filtered_tasks) < Len(Rows)
    /\ send_log # << >>

(***************************************************************************)
(* C12: urgency flag.  In every rendered digest a task's row carries the   *)
(* urgent marker exactly when its end date is at most three days after     *)
(* today (today itself and past dates included); a task with more than     *)
(* three days left is never marked.                                        *)
(***************************************************************************)
\* the end date of row j is today + k at the latest, counted day by day
DueWithin(j, k) == date_ge(add_days(today, k), Rows[j]["End Date"])

\* the digest lines of log entry i that show row j
LinesOf(i, j) ==
    { l \in Range(send_log[i].html.lines) : l.task = Rows[j]["Task"] }

C12_UrgentIffThreeDaysOrLess ==
    \A i \in DOMAIN send_log : \A j \in send_log[i].tasks :
        /\ LinesOf(i, j) # {}
        /\ \A l \in LinesOf(i, j) : (l.class = "urgent") <=> DueWithin(j, 3)

\* digests were rendered with a task due today and one due in three days,
\* both marked, and one due in four days, not marked
C12_Witness ==
    /\ \E i \in DOMAIN send_log : \E l \in Range(send_log[i].html.lines) :
          l.days_remaining = 0 /\ l.class = "urgent"
    /\ \E i \in DOMAIN send_log : \E l \in Range(send_log[i].html.lines) :
          l.days_remaining = 3 /\ l.class = "urgent"
    /\ \E i \in DOMAIN send_log : \E l \in Range(send_log[i].html.lines) :
          l.days_remaining = 4 /\ l.class = ""

(***************************************************************************)
(* C13: the weekly reminder goes out on Mondays.  In mode reminder the     *)
(* filter returns the pending tasks whose end date is not before today     *)
(* when today is a Monday (weekday 0) and nothing on any other weekday.    *)
(***************************************************************************)
C13_ReminderOnMondays ==
    (FilterReturned /\ schedule_type = S_reminder) =>
        filtered_tasks =
            IF weekday(today) = 0
            THEN { i \in 1..Len(Rows) :
                     /\ SpellsIgnoringCase(Rows[i]["Status"], S_pending)
                     /\ DaysLeft(i) >= 0 }
            ELSE {}

(***************************************************************************)
(* C14: every task of the filtered set, a task with a blank owner e-mail   *)
(* included, is in exactly one digest, so total_tasks is the sum of the    *)
(* digests' task counts and no eligible task goes without a send attempt.  *)
(***************************************************************************)
RECURSIVE DigestTaskCount(_)
\* the sum of the task counts of the first n digests of the send log
DigestTaskCount(n) ==
    IF n = 0 THEN 0 ELSE DigestTaskCount(n - 1) + send_log[n].html.task_count

C14_EveryFilteredTaskInOneDigest ==
    (ProcessReturned /\ filtered_tasks # {}) =>
        /\ \A j \in filtered_tasks :
              Cardinality({ i \in DOMAIN send_log : j \in send_log[i].tasks }) = 1
        /\ result.total_tasks = DigestTaskCount(Len(send_log))

====
